---- MODULE Spec2Model ----
(***************************************************************************)
(* A model of the Convex user data layer of next-clerk: the users/posts    *)
(* schema (convex/schema.ts) and the user endpoints (users.ts): getUsers,  *)
(* getRecentUsers, current, getCurrentUser, getCurrentUserOrThrow,         *)
(* userByClerkUserId, upsertFromClerk and deleteFromClerk.                 *)
(*                                                                         *)
(* A document is a function from field names to values; an optional field  *)
(* that is absent is a field name outside the document's DOMAIN.           *)
(***************************************************************************)
EXTENDS Integers, Sequences, FiniteSets, TLC

VARIABLES
    users,      \* the "users" table: a set of documents
    posts,      \* the "posts" table: a set of documents
    clock,      \* number of documents inserted so far (source of _id and _creationTime)
    last,       \* the last call: its endpoint, argument, branch taken and returned value
    synced,     \* per subject id: the last identity-sync event that ran for it
    inflight    \* per process: a mutation handler suspended between its lookup and its write

vars == <<users, posts, clock, last, synced, inflight>>

----------------------------------------------------------------------------
(* Bounds of the model *)

NumSubjects == 2        \* subject ids the identity provider sends events for
MaxClock == 3           \* documents ever inserted
MaxPosts == 1           \* posts ever created
ExtraRecent == 1        \* users beyond the getRecentUsers limit in SpecRecent
RecentSpare == 1        \* inserts beyond one per subject in SpecRecent
NumProcs == 2           \* concurrently running mutation handlers in SpecRace

(* Program constants *)

RecentLimit == 5        \* take(5)

----------------------------------------------------------------------------
(* JavaScript values *)

Null == "null"
Undefined == "undefined"

\* a ?? b
Coalesce(a, b) == IF a = Null \/ a = Undefined THEN b ELSE a

Min(a, b) == IF a < b THEN a ELSE b

----------------------------------------------------------------------------
(* The document store: insert, patch, delete, index lookup, ordered scan *)

\* The fields of attrs that carry a value: a field given as undefined is not stored.
Defined(attrs) == {k \in DOMAIN attrs : attrs[k] # Undefined}

\* ctx.db.insert(table, attrs): a new document with a fresh _id, stamped with the
\* time of its creation.
dbInsert(table, attrs, id, now) ==
    table \cup {[k \in Defined(attrs) \cup {"_id", "_creationTime"} |->
                    IF k = "_id" THEN id
                    ELSE IF k = "_creationTime" THEN now
                    ELSE attrs[k]]}

\* The bug of replacing the document instead of patching it (ctx.db.replace).
dbReplace(doc, attrs) ==
    [k \in Defined(attrs) \cup {"_id", "_creationTime"} |->
        IF k \in DOMAIN attrs THEN attrs[k] ELSE doc[k]]

\* The bug of patching by delete-and-reinsert: the document gets a new creation time.
dbPatchRestamped(doc, attrs) ==
    [k \in (DOMAIN doc \ DOMAIN attrs) \cup Defined(attrs) |->
        IF k = "_creationTime" THEN clock + 1
        ELSE IF k \in DOMAIN attrs THEN attrs[k] ELSE doc[k]]

\* ctx.db.patch(id, attrs) on one document: the given fields are overwritten, a
\* field given as undefined is removed, every other field is kept.
dbPatch(doc, attrs) ==
    [k \in (DOMAIN doc \ DOMAIN attrs) \cup Defined(attrs) |->
        IF k \in DOMAIN attrs THEN attrs[k] ELSE doc[k]]

\* The bug of returning the first match where unique() must throw.
uniqueFirst(matching) ==
    IF matching = {} THEN [kind |-> "null"]
    ELSE [kind |-> "doc", doc |-> CHOOSE u \in matching : \A w \in matching : u._id <= w._id]

\* .unique(): null when nothing matches, the document when one matches, and an
\* error when more than one does.
unique(matching) ==
    IF matching = {} THEN [kind |-> "null"]
    ELSE IF Cardinality(matching) = 1 THEN [kind |-> "doc", doc |-> CHOOSE u \in matching : TRUE]
    ELSE [kind |-> "error"]

\* Lexicographic order on (_creationTime, _id): the store's default scan order.
Before(u, w) ==
    \/ u._creationTime < w._creationTime
    \/ u._creationTime = w._creationTime /\ u._id <= w._id

RECURSIVE OrderAsc(_)
OrderAsc(S) ==
    IF S = {} THEN <<>>
    ELSE LET m == CHOOSE u \in S : \A w \in S : Before(u, w)
         IN <<m>> \o OrderAsc(S \ {m})

RECURSIVE OrderDesc(_)
OrderDesc(S) ==
    IF S = {} THEN <<>>
    ELSE LET m == CHOOSE u \in S : \A w \in S : Before(w, u)
         IN <<m>> \o OrderDesc(S \ {m})

\* .take(n)
Take(seq, n) == SubSeq(seq, 1, Min(n, Len(seq)))

\* The bug of an id filter that matches every document.
ByIdAny(table, id) == table

\* The document of a table with the given _id, as a set (empty when it is gone).
ById(table, id) == {u \in table : u._id = id}

----------------------------------------------------------------------------
(* users.ts: the helpers *)

\* The bug of a lookup on an index that never matches.
userNeverFound(table, clerkUserId) == unique({})

\* userByClerkUserId(ctx, clerkUserId)
userByClerkUserId(table, clerkUserId) ==
    unique({u \in table : u.clerkUserId = clerkUserId})

\* The bug of not coalescing null to undefined, and of taking the last email address.
userAttributesRaw(data) ==
    [email |-> data.email_addresses[Len(data.email_addresses)].email_address,
     clerkUserId |-> data.id,
     firstname |-> data.first_name,
     lastname |-> data.last_name,
     imageUrl |-> data.image_url]

\* const userAttributes = {...} of upsertFromClerk
userAttributes(data) ==
    [email |-> data.email_addresses[1].email_address,
     clerkUserId |-> data.id,
     firstname |-> Coalesce(data.first_name, Undefined),
     lastname |-> Coalesce(data.last_name, Undefined),
     imageUrl |-> Coalesce(data.image_url, Undefined)]

\* getCurrentUser(ctx): identity is what ctx.auth.getUserIdentity() returned.
getCurrentUser(table, identity) ==
    IF identity.kind = "null" THEN [kind |-> "null"]
    ELSE userByClerkUserId(table, identity.subject)

\* The bug of passing the absence on instead of throwing.
getCurrentUserNoThrow(table, identity) == getCurrentUser(table, identity)

\* getCurrentUserOrThrow(ctx): an error of the lookup propagates, null throws.
getCurrentUserOrThrow(table, identity) ==
    LET userRecord == getCurrentUser(table, identity)
    IN IF userRecord.kind = "error" THEN userRecord
       ELSE IF userRecord.kind = "null"
            THEN [kind |-> "error", message |-> "Can't get current user"]
       ELSE userRecord

----------------------------------------------------------------------------
(* Inputs *)

\* Subject ids are strings (clerkUserId: v.string()).
SubjectId(i) == "user_" \o ToString(i)
Subjects == {SubjectId(i) : i \in 1..NumSubjects}
RecentSubjects == {SubjectId(i) : i \in 1..(RecentLimit + ExtraRecent)}
AllSubjects == Subjects \cup RecentSubjects
Procs == 1..NumProcs

OneEmail == <<[email_address |-> "a@example.com"]>>
TwoEmails == <<[email_address |-> "b@example.com"], [email_address |-> "a@example.com"]>>

\* The optional fields of a payload: all omitted (a field the payload omits reads
\* as undefined), all null, all given, and a mix.
OmittedShape == [first_name |-> Undefined, last_name |-> Undefined, image_url |-> Undefined]
NullShape == [first_name |-> Null, last_name |-> Null, image_url |-> Null]
GivenShape == [first_name |-> "Ann", last_name |-> "Lee", image_url |-> "img"]
MixedShape == [first_name |-> "Ann", last_name |-> Null, image_url |-> Undefined]

\* UserJSON payloads
UserJSON(id, emails, opt) ==
    [id |-> id, email_addresses |-> emails, first_name |-> opt.first_name,
     last_name |-> opt.last_name, image_url |-> opt.image_url]

PayloadsFor(ids) ==
    {UserJSON(id, OneEmail, OmittedShape) : id \in ids}
        \cup {UserJSON(id, TwoEmails, NullShape) : id \in ids}
        \cup {UserJSON(id, OneEmail, GivenShape) : id \in ids}
        \cup {UserJSON(id, TwoEmails, MixedShape) : id \in ids}

Payloads == PayloadsFor(Subjects)

\* What ctx.auth.getUserIdentity() can return.
Identities == {[kind |-> "null"]} \cup [kind : {"identity"}, subject : Subjects]

Call(op, arg, outcome, value) ==
    [op |-> op, arg |-> arg, outcome |-> outcome, value |-> value]

----------------------------------------------------------------------------
(* users.ts: the mutations *)

\* The bug of inserting without looking at what the lookup returned.
upsertAlwaysInsert(data, user) ==
    /\ users' = dbInsert(users, userAttributes(data), clock + 1, clock + 1)
    /\ clock' = clock + 1
    /\ last' = Call("upsertFromClerk", data, "inserted", "void")
    /\ synced' = [synced EXCEPT ![data.id] = "upserted"]

\* The write of upsertFromClerk, given what its lookup returned: insert when the
\* lookup returned null, patch the document it returned otherwise. Patching a
\* document that is gone throws, and the mutation changes nothing.
upsertWrite(data, user) ==
    IF user.kind = "null"
    THEN /\ users' = dbInsert(users, userAttributes(data), clock + 1, clock + 1)
         /\ clock' = clock + 1
         /\ last' = Call("upsertFromClerk", data, "inserted", "void")
         /\ synced' = [synced EXCEPT ![data.id] = "upserted"]
    ELSE IF ById(users, user.doc._id) = {}
    THEN /\ last' = Call("upsertFromClerk", data, "threw", "error")
         /\ UNCHANGED <<users, clock, synced>>
    ELSE /\ users' = {IF u._id = user.doc._id THEN dbPatch(u, userAttributes(data)) ELSE u
                        : u \in users}
         /\ last' = Call("upsertFromClerk", data, "patched", "void")
         /\ synced' = [synced EXCEPT ![data.id] = "upserted"]
         /\ UNCHANGED clock

\* The bug of throwing when there is no user to delete.
deleteThrowsOnMissing(clerkUserId, user) ==
    IF user.kind = "null"
    THEN /\ last' = Call("deleteFromClerk", clerkUserId, "threw", "error")
         /\ UNCHANGED <<users, synced>>
    ELSE /\ users' = users \ ById(users, user.doc._id)
         /\ last' = Call("deleteFromClerk", clerkUserId, "deleted", "void")
         /\ synced' = [synced EXCEPT ![clerkUserId] = IF @ = "never" THEN @ ELSE "deleted"]

\* The bug of deleting nothing.
deleteSkipped(clerkUserId, user) ==
    /\ last' = Call("deleteFromClerk", clerkUserId, "deleted", "void")
    /\ synced' = [synced EXCEPT ![clerkUserId] = IF @ = "never" THEN @ ELSE "deleted"]
    /\ UNCHANGED users

\* The write of deleteFromClerk, given what its lookup returned: delete the
\* document it returned, warn when it returned null. Deleting a document that is
\* gone throws.
deleteWrite(clerkUserId, user) ==
    IF user.kind = "null"
    THEN /\ last' = Call("deleteFromClerk", clerkUserId, "warned", "void")
         /\ synced' = [synced EXCEPT ![clerkUserId] = IF @ = "never" THEN @ ELSE "deleted"]
         /\ UNCHANGED users
    ELSE IF ById(users, user.doc._id) = {}
    THEN /\ last' = Call("deleteFromClerk", clerkUserId, "threw", "error")
         /\ UNCHANGED <<users, synced>>
    ELSE /\ users' = users \ ById(users, user.doc._id)
         /\ last' = Call("deleteFromClerk", clerkUserId, "deleted", "void")
         /\ synced' = [synced EXCEPT ![clerkUserId] = IF @ = "never" THEN @ ELSE "deleted"]

\* A lookup that throws (more than one match) fails the whole mutation.
lookupThrew(op, arg) ==
    /\ last' = Call(op, arg, "threw", "error")
    /\ UNCHANGED <<users, clock, synced>>

\* upsertFromClerk({data}), run as one atomic mutation.
upsertFromClerk(data) ==
    /\ LET user == userByClerkUserId(users, data.id)
       IN IF user.kind = "error" THEN lookupThrew("upsertFromClerk", data)
          ELSE upsertWrite(data, user)
    /\ UNCHANGED <<posts, inflight>>

\* deleteFromClerk({clerkUserId}), run as one atomic mutation.
deleteFromClerk(clerkUserId) ==
    /\ LET user == userByClerkUserId(users, clerkUserId)
       IN IF user.kind = "error"
          THEN lookupThrew("deleteFromClerk", clerkUserId)
          ELSE deleteWrite(clerkUserId, user) /\ UNCHANGED clock
    /\ UNCHANGED <<posts, inflight>>

----------------------------------------------------------------------------
(* users.ts: the queries *)

\* getUsers: .collect()
getUsers ==
    /\ last' = Call("getUsers", "none", "returned", OrderAsc(users))
    /\ UNCHANGED <<users, posts, clock, synced, inflight>>

\* .order("desc").take(5)
recentUsers(table) == Take(OrderDesc(table), RecentLimit)

\* getRecentUsers
getRecentUsers ==
    /\ last' = Call("getRecentUsers", "none", "returned", recentUsers(users))
    /\ UNCHANGED <<users, posts, clock, synced, inflight>>

\* current
current(identity) ==
    /\ LET r == getCurrentUser(users, identity)
       IN last' = Call("current", identity, IF r.kind = "error" THEN "threw" ELSE "returned", r)
    /\ UNCHANGED <<users, posts, clock, synced, inflight>>

\* A caller of getCurrentUserOrThrow.
requireCurrentUser(identity) ==
    /\ LET r == getCurrentUserOrThrow(users, identity)
       IN last' = Call("getCurrentUserOrThrow", identity,
                       IF r.kind = "error" THEN "threw" ELSE "returned", r)
    /\ UNCHANGED <<users, posts, clock, synced, inflight>>

----------------------------------------------------------------------------
(* The posts table and the posts field of a user *)

\* A post is created for an author: the post is inserted and its id is appended
\* to the author's posts; no other field of the author changes.
createPost(authorId) ==
    /\ Cardinality(posts) < MaxPosts
    /\ ById(users, authorId) # {}
    /\ posts' = posts \cup
                   {[_id |-> clock + 1, _creationTime |-> clock + 1,
                     title |-> "t", slug |-> "s", excerpt |-> "e", content |-> "c",
                     authorId |-> authorId, likes |-> 0]}
    /\ users' = {IF u._id = authorId
                 THEN [k \in DOMAIN u \cup {"posts"} |->
                          IF k = "posts"
                          THEN (IF "posts" \in DOMAIN u THEN u.posts ELSE <<>>) \o <<clock + 1>>
                          ELSE u[k]]
                 ELSE u : u \in users}
    /\ clock' = clock + 1
    /\ last' = Call("createPost", authorId, "inserted", "void")
    /\ UNCHANGED <<synced, inflight>>

----------------------------------------------------------------------------
(* The specification: every mutation runs atomically *)

Idle == [pc |-> "idle"]

Init ==
    /\ users = {}
    /\ posts = {}
    /\ clock = 0
    /\ last = Call("none", "none", "none", "void")
    /\ synced = [s \in AllSubjects |-> "never"]
    /\ inflight = [p \in Procs |-> Idle]

\* The bound on inserted documents: an upsert that would insert needs room.
Room(table, clerkUserId, max) ==
    clock < max \/ userByClerkUserId(table, clerkUserId).kind # "null"

Next ==
    \/ \E data \in Payloads : Room(users, data.id, MaxClock) /\ upsertFromClerk(data)
    \/ \E s \in Subjects : deleteFromClerk(s)
    \/ getUsers
    \/ getRecentUsers
    \/ \E identity \in Identities : current(identity)
    \/ \E identity \in Identities : requireCurrentUser(identity)
    \/ \E u \in users : clock < MaxClock /\ createPost(u._id)

Spec == Init /\ [][Next]_vars

----------------------------------------------------------------------------
(* SpecRecent: more users than getRecentUsers returns *)

\* One subject is also updated and deleted; the others are only created, and
\* (the subject ids being interchangeable) in the order of their numbers.
RecentTouched == {SubjectId(1)}

InTurn(clerkUserId) ==
    \A i \in 2..(RecentLimit + ExtraRecent) :
        clerkUserId = SubjectId(i) =>
            \A j \in 2..(i - 1) : synced[SubjectId(j)] # "never"

RecentPayloads ==
    {UserJSON(id, OneEmail, OmittedShape) : id \in RecentSubjects}
        \cup {UserJSON(id, OneEmail, GivenShape) : id \in RecentTouched}

RecentMaxClock == RecentLimit + ExtraRecent + RecentSpare

NextRecent ==
    \/ \E data \in RecentPayloads :
          /\ Room(users, data.id, RecentMaxClock)
          /\ InTurn(data.id)
          /\ upsertFromClerk(data)
    \/ \E s \in RecentTouched : deleteFromClerk(s)
    \/ getRecentUsers

SpecRecent == Init /\ [][NextRecent]_vars

----------------------------------------------------------------------------
(* SpecRace: mutations whose lookup and write are separate steps *)

\* The race is between events for one subject id.
RaceSubjects == {SubjectId(1)}

RacePayloads ==
    {UserJSON(id, OneEmail, opt) : id \in RaceSubjects, opt \in {OmittedShape, GivenShape}}

RaceIdentities == [kind : {"identity"}, subject : RaceSubjects]

Suspend(p, op, arg, user) ==
    /\ inflight' = [inflight EXCEPT ![p] = [pc |-> op, arg |-> arg, user |-> user]]
    /\ UNCHANGED <<users, posts, clock, last, synced>>

\* const user = await userByClerkUserId(ctx, data.id) of upsertFromClerk
upsertLookup(p, data) ==
    /\ inflight[p].pc = "idle"
    /\ LET user == userByClerkUserId(users, data.id)
       IN IF user.kind = "error"
          THEN lookupThrew("upsertFromClerk", data) /\ UNCHANGED <<posts, inflight>>
          ELSE Suspend(p, "upsertFromClerk", data, user)

\* The insert or patch of upsertFromClerk, with the lookup's result
upsertResume(p) ==
    /\ inflight[p].pc = "upsertFromClerk"
    /\ inflight[p].user.kind = "null" => clock < MaxClock
    /\ upsertWrite(inflight[p].arg, inflight[p].user)
    /\ inflight' = [inflight EXCEPT ![p] = Idle]
    /\ UNCHANGED posts

\* const user = await userByClerkUserId(ctx, clerkUserId) of deleteFromClerk
deleteLookup(p, clerkUserId) ==
    /\ inflight[p].pc = "idle"
    /\ LET user == userByClerkUserId(users, clerkUserId)
       IN IF user.kind = "error"
          THEN lookupThrew("deleteFromClerk", clerkUserId) /\ UNCHANGED <<posts, inflight>>
          ELSE Suspend(p, "deleteFromClerk", clerkUserId, user)

\* The delete or warning of deleteFromClerk, with the lookup's result
deleteResume(p) ==
    /\ inflight[p].pc = "deleteFromClerk"
    /\ deleteWrite(inflight[p].arg, inflight[p].user)
    /\ inflight' = [inflight EXCEPT ![p] = Idle]
    /\ UNCHANGED <<posts, clock>>

NextRace ==
    \/ \E p \in Procs, data \in RacePayloads : upsertLookup(p, data)
    \/ \E p \in Procs : upsertResume(p)
    \/ \E p \in Procs, s \in RaceSubjects : deleteLookup(p, s)
    \/ \E p \in Procs : deleteResume(p)
    \/ \E identity \in RaceIdentities : current(identity)

SpecRace == Init /\ [][NextRace]_vars

----------------------------------------------------------------------------
(* Vocabulary of the properties *)

\* The user documents carrying a subject id.
WithSubject(table, clerkUserId) == {u \in table : u.clerkUserId = clerkUserId}

MappedFields == {"email", "clerkUserId", "firstname", "lastname", "imageUrl"}

\* An optional field of a document against the payload's value for it: the value
\* when the payload gives one, absent when the payload omits it or gives null.
OptionalIs(doc, field, given) ==
    IF given = Null \/ given = Undefined
    THEN field \notin DOMAIN doc
    ELSE field \in DOMAIN doc /\ doc[field] = given

\* A document carries exactly what a payload maps to.
Carries(doc, data) ==
    /\ doc.email = data.email_addresses[1].email_address
    /\ doc.clerkUserId = data.id
    /\ OptionalIs(doc, "firstname", data.first_name)
    /\ OptionalIs(doc, "lastname", data.last_name)
    /\ OptionalIs(doc, "imageUrl", data.image_url)

\* Two documents agree on every field that is not a mapped one.
SameElsewhere(old, new) ==
    /\ DOMAIN old \ MappedFields = DOMAIN new \ MappedFields
    /\ \A k \in DOMAIN old \ MappedFields : new[k] = old[k]

IdentityOf(clerkUserId) == [kind |-> "identity", subject |-> clerkUserId]

----------------------------------------------------------------------------
(* C1: at most one user document per subject id, in every state reached by
   atomically executed upsertFromClerk and deleteFromClerk calls. *)
OneUserPerSubject ==
    \A s \in AllSubjects : Cardinality(WithSubject(users, s)) <= 1

\* An upsert found its subject's document and patched it, next to another user.
OneUserPerSubjectWitness ==
    /\ last.op = "upsertFromClerk" /\ last.outcome = "patched"
    /\ Cardinality(users) >= 2
    /\ Cardinality(WithSubject(users, last.arg.id)) = 1

(* C2: upsertFromClerk for a subject id without a document inserts exactly one
   document, and userByClerkUserId then returns a document whose email is the
   payload's first email address, whose clerkUserId is the payload's id and whose
   optional fields are the payload's values, absent where the payload omits them
   or gives null. *)
InsertCarriesPayload ==
    [][(/\ last'.op = "upsertFromClerk"
        /\ upsertFromClerk(last'.arg)
        /\ WithSubject(users, last'.arg.id) = {}) =>
            LET data == last'.arg
                found == userByClerkUserId(users', data.id)
            IN /\ users \subseteq users'
               /\ Cardinality(users' \ users) = 1
               /\ found.kind = "doc"
               /\ found.doc \in users' \ users
               /\ Carries(found.doc, data)]_vars

\* An insert from a payload that gives a first name, a null last name and no image.
InsertCarriesPayloadWitness ==
    /\ last.op = "upsertFromClerk" /\ last.outcome = "inserted"
    /\ last.arg.last_name = Null /\ last.arg.image_url = Undefined
    /\ last.arg.email_addresses = TwoEmails
    /\ \E u \in WithSubject(users, last.arg.id) :
          /\ u.firstname = "Ann"
          /\ DOMAIN u = {"_id", "_creationTime", "email", "clerkUserId", "firstname"}

(* C3: upsertFromClerk for a subject id that has a document creates no document
   and patches that one: the mapped fields take the payload's values, and every
   other field (posts, _id, _creationTime) is as it was. *)
PatchKeepsTheRest ==
    [][(/\ last'.op = "upsertFromClerk"
        /\ upsertFromClerk(last'.arg)
        /\ WithSubject(users, last'.arg.id) # {}) =>
            LET data == last'.arg
            IN \E old \in WithSubject(users, data.id) :
                  \E new \in WithSubject(users', data.id) :
                      /\ users' \ {new} = users \ {old}
                      /\ Cardinality(users') = Cardinality(users)
                      /\ new._id = old._id
                      /\ Carries(new, data)
                      /\ SameElsewhere(old, new)]_vars

\* A user with posts was patched by a payload that removes its optional fields.
PatchKeepsTheRestWitness ==
    /\ last.op = "upsertFromClerk" /\ last.outcome = "patched"
    /\ \E u \in WithSubject(users, last.arg.id) :
          /\ "posts" \in DOMAIN u /\ Len(u.posts) >= 1
          /\ "firstname" \notin DOMAIN u
          /\ u.email = "b@example.com"

(* C4: upsertFromClerk is idempotent: applying the payload that was just applied
   once more leaves the users table as it is. *)
UpsertIdempotent ==
    [][(/\ last.op = "upsertFromClerk"
        /\ last.outcome \in {"inserted", "patched"}
        /\ upsertFromClerk(last.arg)) =>
            /\ users' = users
            /\ last'.outcome = "patched"]_vars

\* The same payload was applied to a subject's document a second time: the call
\* before was an insert of it, this one a patch with it.
UpsertIdempotentWitness ==
    /\ last.op = "upsertFromClerk" /\ last.outcome = "patched"
    /\ \E u \in WithSubject(users, last.arg.id) : Carries(u, last.arg) /\ u._id = clock
    /\ Cardinality(users) >= 2

(* C5: once deleteFromClerk has run for a subject id after an upsertFromClerk for
   it, and no upsertFromClerk for it since, no document carries that subject id
   and userByClerkUserId returns null for it. *)
DeletedIsGone ==
    \A s \in AllSubjects :
        synced[s] = "deleted" =>
            /\ WithSubject(users, s) = {}
            /\ userByClerkUserId(users, s).kind = "null"

\* A subject was deleted while another user stays.
DeletedIsGoneWitness ==
    /\ last.op = "deleteFromClerk" /\ last.outcome = "deleted"
    /\ synced[last.arg] = "deleted"
    /\ users # {}

RecentAreTheLatest ==
    last.op = "getRecentUsers" =>
        LET r == last.value
            returned == {r[i] : i \in 1..Len(r)}
        IN /\ Len(r) <= RecentLimit
           /\ Len(r) = Min(RecentLimit, Cardinality(users))
           /\ returned \subseteq users
           /\ \A i \in 1..Len(r) : \A j \in 1..Len(r) : i < j => r[i]._id > r[j]._id
           /\ \A u \in users \ returned : \A w \in returned : u._id < w._id

\* More than 5 users exist, one of them patched after later ones were inserted and
\* still returned in its place, and the oldest is left out.
RecentAreTheLatestWitness ==
    /\ last.op = "getRecentUsers"
    /\ Cardinality(users) > RecentLimit
    /\ Len(last.value) = RecentLimit
    /\ \E i \in 2..RecentLimit :
          /\ last.value[i].clerkUserId = SubjectId(1)
          /\ "firstname" \in DOMAIN last.value[i]

(* C8: getCurrentUserOrThrow throws exactly when there is no identity or no
   document for the identity's subject id, the cases in which getCurrentUser
   returns null; otherwise it returns what getCurrentUser returns, the document
   whose clerkUserId is the identity's subject id. *)
OrThrowAgreesWithCurrent ==
    \A identity \in Identities :
        LET found == getCurrentUser(users, identity)
            required == getCurrentUserOrThrow(users, identity)
            missing == IF identity.kind = "null" THEN TRUE
                       ELSE WithSubject(users, identity.subject) = {}
        IN /\ required.kind = "error" <=> missing
           /\ missing => found.kind = "null"
           /\ ~missing =>
                 /\ required = found
                 /\ required.kind = "doc"
                 /\ required.doc \in users
                 /\ required.doc.clerkUserId = identity.subject

\* A caller got its document while another identity has none.
OrThrowAgreesWithCurrentWitness ==
    /\ last.op = "getCurrentUserOrThrow" /\ last.outcome = "returned"
    /\ last.value.doc.clerkUserId = last.arg.subject
    /\ \E s \in Subjects : WithSubject(users, s) = {}

(* C9: an upsertFromClerk or deleteFromClerk call for a subject id changes no
   user document of another subject id and no post (the posts of a deleted user
   stay); getUsers, getRecentUsers and current change no table. *)
OthersUntouched ==
    [][/\ (last'.op = "upsertFromClerk" /\ upsertFromClerk(last'.arg)) =>
             /\ users' \ WithSubject(users', last'.arg.id)
                    = users \ WithSubject(users, last'.arg.id)
             /\ posts' = posts
       /\ (last'.op = "deleteFromClerk" /\ deleteFromClerk(last'.arg)) =>
             /\ users' \ WithSubject(users', last'.arg) = users \ WithSubject(users, last'.arg)
             /\ posts' = posts
       /\ (\/ getUsers
           \/ getRecentUsers
           \/ last'.op = "current" /\ current(last'.arg)) =>
             /\ users' = users
             /\ posts' = posts]_vars

\* The author of a post was deleted: the post stays, and so does the other user.
OthersUntouchedWitness ==
    /\ last.op = "deleteFromClerk" /\ last.outcome = "deleted"
    /\ users # {}
    /\ \E post \in posts : ById(users, post.authorId) = {}

(* C10: when the lookup and the write of upsertFromClerk are separate steps, an
   insert whose lookup returned null before another insert for the same subject
   id leaves two documents for that subject id, and userByClerkUserId (and so
   current) fails for a subject id with more than one document. *)
RaceDuplicates ==
    [][/\ \A p \in Procs :
             (/\ upsertResume(p)
              /\ inflight[p].user.kind = "null"
              /\ WithSubject(users, inflight[p].arg.id) # {}) =>
                 Cardinality(WithSubject(users', inflight[p].arg.id)) >= 2
       /\ \A s \in Subjects :
             Cardinality(WithSubject(users', s)) >= 2 =>
                 /\ userByClerkUserId(users', s).kind = "error"
                 /\ getCurrentUser(users', IdentityOf(s)).kind = "error"]_vars

\* Two documents for one subject id, and current has failed for it.
RaceDuplicatesWitness ==
    /\ last.op = "current" /\ last.outcome = "threw"
    /\ Cardinality(WithSubject(users, last.arg.subject)) = 2

====
